---------------------------- MODULE Spec2Model ----------------------------
(***************************************************************************)
(* The Integration Gateway of the HCC Compression Advisor dashboard:       *)
(*   - the Session Guard          (src/python/auth.py, AuthManager)        *)
(*   - the dashboard entry points (src/python/app.py, src/python/pages/)   *)
(*   - the Database Gateway       (src/python/utils/db_connector.py)       *)
(*   - the API Gateway            (src/python/utils/api_client.py)         *)
(*                                                                         *)
(* Each component has its own specification over the shared variables:     *)
(*   SpecAuth  the Session Guard's operations called in any order          *)
(*   SpecApp   one script run of a dashboard entry point after another     *)
(*   SpecDb    concurrent sessions running Database Gateway operations     *)
(*   SpecDbFair   SpecDb with every session thread scheduled fairly        *)
(*   SpecDbClose  SpecDb with close_pool called at any moment              *)
(*   SpecApi   calls of the API Gateway against a nondeterministic server  *)
(*   SpecGateways  one session calling both gateways                       *)
(*   SpecMain  the connectivity check, test_connection.py, in any          *)
(*             environment                                                 *)
(***************************************************************************)
EXTENDS Integers, Sequences, FiniteSets, TLC

VARIABLES
    session_state,  \* st.session_state: a mapping over the keys present
    now,            \* datetime.now(), in minutes
    ret,            \* the last Session Guard operation: its argument, the value
                    \* it returned, and login_attempts / authenticated before it
    entry,          \* the script the current run started from
    pc,             \* position of the current script run
    guarded,        \* require_authentication ran in this run and let it pass
    gwcall,         \* the last gateway operation invoked in this run
    page,           \* the page function the run is in
    site,           \* the next gateway call site of that page function
    pool,           \* DatabaseConnector._pool: the pool object, or NoPool
    created,        \* how many pool objects oracledb.create_pool has returned
    top,            \* per session thread: the gateway operation it is running
    targ,           \* per session thread: the operation's commit argument
    tpc,            \* per session thread: its position in the operation
    conn,           \* per session thread: the pool its checked-out connection
                    \* belongs to, or NoConn
    exc,            \* per session thread: the exception in flight, and where
                    \* it was raised
    ran,            \* per session thread: the driver calls its operation has
                    \* made so far, in order
    closedPools,    \* the pool objects pool.close() has closed, in order
    client,         \* the ORDSClient instance: base_url, auth, timeout,
                    \* verify_ssl
    apiPc,          \* "waiting" while an API Gateway call awaits its answer
    apiCall,        \* the API Gateway operation called last, with the
                    \* request it asks for
    apiArgs,        \* the arguments a named operation was called with
    server,         \* what the network and the remote service answered to it
    http,           \* the HTTP requests the call sent, in order
    apiRet,         \* what the call returned, or the exception it raised
    environ,        \* what config.py finds when it is imported: the
                    \* environment's settings and the files that exist
    mpc,            \* position of test_connection.py's main
    errors,         \* the list validate_config returned to main
    results,        \* main's results, one per connection test
    poolArgs        \* the password of every oracledb.create_pool call

authVars == <<session_state, now, ret>>
appVars == <<entry, pc, guarded, gwcall, page, site>>
dbVars == <<pool, created, top, targ, tpc, conn, exc, ran, closedPools>>
apiVars == <<client, apiPc, apiCall, apiArgs, server, http, apiRet>>
cfgVars == <<environ, mpc, errors, results, poolArgs>>
vars == <<session_state, now, ret, entry, pc, guarded, gwcall, page, site,
          pool, created, top, targ, tpc, conn, exc, ran, closedPools,
          client, apiPc, apiCall, apiArgs, server, http, apiRet,
          environ, mpc, errors, results, poolArgs>>

-----------------------------------------------------------------------------
(* Configuration: src/python/config.py                                     *)

SESSION_TIMEOUT_MINUTES == 30
MAX_LOGIN_ATTEMPTS == 3
DASHBOARD_PASSWORD == "admin123"

(* The clock stops at MaxTime; passwords a user may type.                  *)
MaxTime == 32
Passwords == {DASHBOARD_PASSWORD, "letmein", ""}
TickSteps == {1, SESSION_TIMEOUT_MINUTES}

-----------------------------------------------------------------------------
(* Session Guard: src/python/auth.py                                       *)

None == "None"
EmptyState == [k \in {} |-> FALSE]

\* st.session_state.k = v
Put(s, k, v) == [x \in (DOMAIN s) \cup {k} |-> IF x = k THEN v ELSE s[x]]

\* 'k' in st.session_state
Has(s, k) == k \in DOMAIN s

\* AuthManager.initialize_session_state: only the absent keys are set
InitializedState(s, t) ==
    LET s1 == IF Has(s, "authenticated") THEN s ELSE Put(s, "authenticated", FALSE)
        s2 == IF Has(s1, "login_attempts") THEN s1 ELSE Put(s1, "login_attempts", 0)
        s3 == IF Has(s2, "last_activity") THEN s2 ELSE Put(s2, "last_activity", t)
    IN  IF Has(s3, "username") THEN s3 ELSE Put(s3, "username", None)

\* AuthManager.logout
LogoutStateResetsAttempts(s, t) ==
    Put(Put(Put(Put(s, "authenticated", FALSE), "username", None),
            "last_activity", t), "login_attempts", 0)

LogoutStateKeepsUsername(s, t) ==
    Put(Put(s, "authenticated", FALSE), "last_activity", t)

LogoutStateKeepsActivity(s, t) ==
    Put(Put(s, "authenticated", FALSE), "username", None)

LogoutState(s, t) ==
    Put(Put(Put(s, "authenticated", FALSE), "username", None), "last_activity", t)

\* AuthManager.check_session_timeout: the value returned
TimedOutInclusive(s, t) ==
    /\ Has(s, "last_activity")
    /\ t - s["last_activity"] >= SESSION_TIMEOUT_MINUTES

TimedOut(s, t) ==
    /\ Has(s, "last_activity")
    /\ t - s["last_activity"] > SESSION_TIMEOUT_MINUTES

\* AuthManager.check_session_timeout: the session it leaves
CheckTimeoutState(s, t) == IF TimedOut(s, t) THEN LogoutState(s, t) ELSE s

\* AuthManager.update_activity
UpdateActivityState(s, t) == Put(s, "last_activity", t)

\* AuthManager.is_authenticated: st.session_state.get('authenticated', False)
IsAuthenticated(s) == IF Has(s, "authenticated") THEN s["authenticated"] ELSE FALSE

\* AuthManager.login: the value returned ("AttributeError" when the attempt
\* counter was never initialised: st.session_state.login_attempts raises)
LoginResult(s, p) ==
    IF ~Has(s, "login_attempts") THEN "AttributeError"
    ELSE IF s["login_attempts"] >= MAX_LOGIN_ATTEMPTS THEN "False"
    ELSE IF p = DASHBOARD_PASSWORD THEN "True"
    ELSE "False"

\* AuthManager.login: the session it leaves
LoginStateKeepsAttempts(s, p, t) ==
    IF ~Has(s, "login_attempts") THEN s
    ELSE IF s["login_attempts"] >= MAX_LOGIN_ATTEMPTS THEN s
    ELSE IF p = DASHBOARD_PASSWORD
         THEN Put(Put(Put(s, "authenticated", TRUE), "username", "admin"),
                  "last_activity", t)
    ELSE Put(s, "login_attempts", s["login_attempts"] + 1)

LoginStateNoLockout(s, p, t) ==
    IF ~Has(s, "login_attempts") THEN s
    ELSE IF p = DASHBOARD_PASSWORD
         THEN Put(Put(Put(Put(s, "authenticated", TRUE), "username", "admin"),
                      "login_attempts", 0), "last_activity", t)
    ELSE Put(s, "login_attempts", s["login_attempts"] + 1)

LoginStateDropsSession(s, p, t) ==
    IF ~Has(s, "login_attempts") THEN s
    ELSE IF s["login_attempts"] >= MAX_LOGIN_ATTEMPTS THEN s
    ELSE IF p = DASHBOARD_PASSWORD
         THEN Put(Put(Put(Put(s, "authenticated", TRUE), "username", "admin"),
                      "login_attempts", 0), "last_activity", t)
    ELSE Put(Put(Put(s, "login_attempts", s["login_attempts"] + 1),
                 "authenticated", FALSE), "username", None)

LoginState(s, p, t) ==
    IF ~Has(s, "login_attempts") THEN s
    ELSE IF s["login_attempts"] >= MAX_LOGIN_ATTEMPTS THEN s
    ELSE IF p = DASHBOARD_PASSWORD
         THEN Put(Put(Put(Put(s, "authenticated", TRUE), "username", "admin"),
                      "login_attempts", 0), "last_activity", t)
    ELSE Put(s, "login_attempts", s["login_attempts"] + 1)

\* The login form of show_login_page: whether it was submitted, and with what
FormInputs == [submit : BOOLEAN, password : Passwords]

\* AuthManager.show_login_page calls login only for a submitted, non-empty password
FormCallsLogin(f) == f.submit /\ f.password # ""

\* AuthManager.require_authentication: what happens to the calling script
\*   "continue"  the caller goes on (authenticated, activity stamped)
\*   "stop"      the login page was shown and st.stop() ended the run
\*   "rerun"     the login form succeeded and st.rerun() ended the run
RequireAuthOutcome(s, f, t) ==
    LET s1 == CheckTimeoutState(InitializedState(s, t), t)
    IN  IF IsAuthenticated(s1) THEN "continue"
        ELSE IF FormCallsLogin(f) /\ LoginResult(s1, f.password) = "True" THEN "rerun"
        ELSE "stop"

\* AuthManager.require_authentication: the session it leaves
RequireAuthState(s, f, t) ==
    LET s1 == CheckTimeoutState(InitializedState(s, t), t)
    IN  IF IsAuthenticated(s1) THEN UpdateActivityState(s1, t)
        ELSE IF FormCallsLogin(f) THEN LoginState(s1, f.password, t)
        ELSE s1

(* The Session Guard's operations as steps                                 *)

\* login_attempts as a caller reads it (-1: the key is absent)
Attempts(s) == IF Has(s, "login_attempts") THEN s["login_attempts"] ELSE -1

Returned(op, arg, val) ==
    [op |-> op, arg |-> arg, val |-> val,
     was |-> Attempts(session_state), auth |-> IsAuthenticated(session_state)]

InitializeSessionState ==
    /\ session_state' = InitializedState(session_state, now)
    /\ ret' = Returned("initialize_session_state", None, None)
    /\ UNCHANGED now

CheckSessionTimeout ==
    /\ session_state' = CheckTimeoutState(session_state, now)
    /\ ret' = Returned("check_session_timeout", None,
                       IF TimedOut(session_state, now) THEN "True" ELSE "False")
    /\ UNCHANGED now

UpdateActivity ==
    /\ session_state' = UpdateActivityState(session_state, now)
    /\ ret' = Returned("update_activity", None, None)
    /\ UNCHANGED now

Login(p) ==
    /\ session_state' = LoginState(session_state, p, now)
    /\ ret' = Returned("login", p, LoginResult(session_state, p))
    /\ UNCHANGED now

Logout ==
    /\ session_state' = LogoutState(session_state, now)
    /\ ret' = Returned("logout", None, None)
    /\ UNCHANGED now

RequireAuthentication(f) ==
    /\ session_state' = RequireAuthState(session_state, f, now)
    /\ ret' = Returned("require_authentication",
                       IF FormCallsLogin(f) THEN f.password ELSE None,
                       RequireAuthOutcome(session_state, f, now))
    /\ UNCHANGED now

\* Time passes between two operations
Tick(d) ==
    /\ now + d <= MaxTime
    /\ now' = now + d
    /\ UNCHANGED <<session_state, ret>>

\* A new browser session: st.session_state is empty
InitAuth ==
    /\ session_state = EmptyState
    /\ now = 0
    /\ ret = [op |-> "new_session", arg |-> None, val |-> None,
              was |-> -1, auth |-> FALSE]

NextAuth ==
    \/ InitializeSessionState /\ UNCHANGED <<appVars, dbVars, apiVars, cfgVars>>
    \/ CheckSessionTimeout /\ UNCHANGED <<appVars, dbVars, apiVars, cfgVars>>
    \/ UpdateActivity /\ UNCHANGED <<appVars, dbVars, apiVars, cfgVars>>
    \/ \E p \in Passwords : Login(p) /\ UNCHANGED <<appVars, dbVars, apiVars, cfgVars>>
    \/ Logout /\ UNCHANGED <<appVars, dbVars, apiVars, cfgVars>>
    \/ \E f \in FormInputs :
          RequireAuthentication(f) /\ UNCHANGED <<appVars, dbVars, apiVars, cfgVars>>
    \/ \E d \in TickSteps : Tick(d) /\ UNCHANGED <<appVars, dbVars, apiVars, cfgVars>>

-----------------------------------------------------------------------------
(* Dashboard entry points: src/python/app.py and src/python/pages/         *)
(* Streamlit runs a script from top to bottom for every interaction; each  *)
(* script under pages/ ends in an  if __name__ == "__main__"  entry point. *)

PageScripts == {"page_01", "page_02", "page_03", "page_04", "page_05"}
Entries == {"app"} \cup PageScripts

\* The gateway call sites of each page function, in source order; user marks
\* a call made only when a form or button of the page was used
Site(op, u) == [op |-> op, user |-> u]

show_dashboard ==
    << Site("api.get_compression_statistics", FALSE),
       Site("api.get_savings_by_strategy", FALSE),
       Site("api.get_execution_history", FALSE) >>

show_analysis_page ==
    << Site("api.start_analysis", TRUE),
       Site("api.get_latest_analysis", FALSE),
       Site("api.get_recommendations", FALSE) >>

show_recommendations_page ==
    << Site("api.get_recommendations", FALSE) >>

show_execution_page ==
    << Site("api.get_recommendations", FALSE),
       Site("api.execute_compression", TRUE),
       Site("api.get_recommendations", FALSE),
       Site("api.batch_execute", TRUE),
       Site("api.get_execution_history", FALSE) >>

show_history_page ==
    << Site("api.get_execution_history", FALSE) >>

show_strategies_page ==
    << Site("api.get_strategies", FALSE),
       Site("api.get_savings_by_strategy", FALSE),
       Site("api.compare_strategies", TRUE) >>

PageSites(pg) ==
    CASE pg = "dashboard" -> show_dashboard
      [] pg = "page_01" -> show_analysis_page
      [] pg = "page_02" -> show_recommendations_page
      [] pg = "page_03" -> show_execution_page
      [] pg = "page_04" -> show_history_page
      [] pg = "page_05" -> show_strategies_page
      [] OTHER -> << >>

\* A new interaction: Streamlit runs the entry script from its first line
StartRun(e) ==
    /\ pc = "idle"
    /\ entry' = e
    /\ pc' = "start"
    /\ guarded' = FALSE
    /\ gwcall' = "none"
    /\ page' = "none"
    /\ site' = 0
    /\ UNCHANGED authVars

\* app.main: AuthManager.require_authentication() comes first; st.stop() or
\* st.rerun() inside it ends the run
AppRequireAuthentication(f) ==
    /\ pc = "start" /\ entry = "app"
    /\ RequireAuthentication(f)
    /\ IF RequireAuthOutcome(session_state, f, now) = "continue"
       THEN pc' = "api_status" /\ guarded' = TRUE
       ELSE pc' = "idle" /\ guarded' = FALSE
    /\ UNCHANGED <<entry, gwcall, page, site>>

\* app.main, sidebar: api_client.health_check()
AppHealthCheck ==
    /\ pc = "api_status"
    /\ gwcall' = "api.health_check"
    /\ pc' = "db_status"
    /\ UNCHANGED <<authVars, entry, guarded, page, site>>

\* app.main, sidebar: db_connector.test_connection()
AppTestConnection ==
    /\ pc = "db_status"
    /\ gwcall' = "db.test_connection"
    /\ pc' = "logout_button"
    /\ UNCHANGED <<authVars, entry, guarded, page, site>>

\* auth.render_logout_button: a click logs out and reruns the script
AppLogoutButton(clicked) ==
    /\ pc = "logout_button"
    /\ IF clicked
       THEN Logout /\ pc' = "idle"
       ELSE pc' = "route" /\ UNCHANGED authVars
    /\ UNCHANGED <<entry, guarded, gwcall, page, site>>

\* app.main: route to the page selected in the sidebar
AppRoute(sel) ==
    /\ pc = "route"
    /\ page' = sel
    /\ site' = 1
    /\ pc' = "page"
    /\ UNCHANGED <<authVars, entry, guarded, gwcall>>

\* pages/page_0N_*.py run as the script: show_*_page() is called directly
PageMain ==
    /\ pc = "start" /\ entry \in PageScripts
    /\ page' = entry
    /\ site' = 1
    /\ pc' = "page"
    /\ UNCHANGED <<authVars, entry, guarded, gwcall>>

\* The page function reaches its next gateway call site and makes the call
PageCall ==
    /\ pc = "page"
    /\ site <= Len(PageSites(page))
    /\ gwcall' = PageSites(page)[site].op
    /\ site' = site + 1
    /\ UNCHANGED <<authVars, entry, pc, guarded, page>>

\* The form or button of a user-driven call site was not used: no call
PageSkip ==
    /\ pc = "page"
    /\ site <= Len(PageSites(page))
    /\ PageSites(page)[site].user
    /\ site' = site + 1
    /\ UNCHANGED <<authVars, entry, pc, guarded, gwcall, page>>

\* The page function returns (at its end, or early on an error envelope)
EndRun ==
    /\ pc = "page"
    /\ site > 1
    /\ pc' = "idle"
    /\ UNCHANGED <<authVars, entry, guarded, gwcall, page, site>>

\* Time passes between two interactions
IdleTick(d) ==
    /\ pc = "idle"
    /\ Tick(d)
    /\ UNCHANGED <<appVars, dbVars, apiVars, cfgVars>>

\* No script is running
InitApp ==
    /\ entry = "none"
    /\ pc = "idle"
    /\ guarded = FALSE
    /\ gwcall = "none"
    /\ page = "none"
    /\ site = 0

NextApp ==
    \/ \E e \in Entries : StartRun(e) /\ UNCHANGED <<dbVars, apiVars, cfgVars>>
    \/ \E f \in FormInputs :
          AppRequireAuthentication(f) /\ UNCHANGED <<dbVars, apiVars, cfgVars>>
    \/ AppHealthCheck /\ UNCHANGED <<dbVars, apiVars, cfgVars>>
    \/ AppTestConnection /\ UNCHANGED <<dbVars, apiVars, cfgVars>>
    \/ \E clicked \in BOOLEAN :
          AppLogoutButton(clicked) /\ UNCHANGED <<dbVars, apiVars, cfgVars>>
    \/ \E sel \in {"dashboard"} \cup PageScripts :
          AppRoute(sel) /\ UNCHANGED <<dbVars, apiVars, cfgVars>>
    \/ PageMain /\ UNCHANGED <<dbVars, apiVars, cfgVars>>
    \/ PageCall /\ UNCHANGED <<dbVars, apiVars, cfgVars>>
    \/ PageSkip /\ UNCHANGED <<dbVars, apiVars, cfgVars>>
    \/ EndRun /\ UNCHANGED <<dbVars, apiVars, cfgVars>>
    \/ \E d \in TickSteps : IdleTick(d) /\ UNCHANGED <<dbVars, apiVars, cfgVars>>

-----------------------------------------------------------------------------
(* Database Gateway: src/python/utils/db_connector.py                      *)
(* Streamlit runs every browser session's script in a thread of its own;   *)
(* DatabaseConnector._pool is a class attribute all of them share.  A      *)
(* thread's steps are cut where it reads or writes what the threads share: *)
(* the pool handle and the pool's connections.  The statement, the fetch   *)
(* and the commit touch only the thread's own connection, so they form one *)
(* step with the release that follows them in get_connection's finally.    *)

\* The pool's max (config.POOL_MAX is 10; the model scales it down and runs
\* one session more than the pool has connections)
PoolMax == 1
Threads == 1..(PoolMax + 1)

\* How many pool objects the process creates before the model stops it
\* (without close_pool, no more than one per session)
MaxPools == 2

NoPool == 0
NoConn == 0
NoExc == [type |-> "none", at |-> "none"]
Raised(type, at) == [type |-> type, at |-> at]

DbOperations ==
    {"execute_query", "execute_dml", "execute_procedure", "test_connection"}

\* Connections of pool p that are checked out
Busy(p) == Cardinality({t \in Threads : conn[t] = p})

\* pool.close() was called on pool p and went through
IsClosed(p) == \E i \in DOMAIN closedPools : closedPools[i] = p

\* oracledb.create_pool(..., max=config.POOL_MAX): acquire() hands out a
\* connection only while fewer than max are out, and waits otherwise
PoolUnbounded(p) == TRUE

PoolHasFree(p) == Busy(p) < PoolMax

\* What the operation returns when nothing went wrong
SuccessValue(op) ==
    CASE op = "execute_query" -> "rows"
      [] op = "execute_dml" -> "rowcount"
      [] op = "execute_procedure" -> "result"
      [] op = "test_connection" -> "True"
      [] OTHER -> "None"

\* What its  except oracledb.Error  handler returns
DefaultValue(op) ==
    CASE op = "execute_query" -> "empty"
      [] op = "execute_dml" -> "0"
      [] op = "execute_procedure" -> "None"
      [] op = "test_connection" -> "False"
      [] OTHER -> "None"

\* What the caller gets: execute_query, execute_dml, execute_procedure and
\* test_connection catch oracledb.Error and nothing else; initialize_pool
\* raises its error again
OutcomeHandlesBodyOnly(op, e) ==
    IF e.type = "none" THEN SuccessValue(op)
    ELSE IF e.type = "oracledb.Error" /\ op \in DbOperations
            /\ e.at \notin {"create", "acquire"} THEN DefaultValue(op)
    ELSE "raise"

Outcome(op, e) ==
    IF e.type = "none" THEN SuccessValue(op)
    ELSE IF e.type = "oracledb.Error" /\ op \in DbOperations THEN DefaultValue(op)
    ELSE "raise"

\* The driver calls the body of  with cls.get_connection() as conn:  makes,
\* in order.
\*   execute_query    cursor.execute, cursor.fetchall (on a statement that
\*                    returns no rows fetchall raises, so cursor.description
\*                    is a list whenever it is read)
\*   execute_dml      cursor.execute, then conn.commit if asked to
\*   execute_procedure  cursor.callproc, conn.commit
\*   test_connection  cursor.execute, cursor.fetchone
BodyStepsAlwaysCommit(op, commit) ==
    CASE op \in {"execute_query", "test_connection"} -> <<"execute", "fetch">>
      [] op \in {"execute_dml", "execute_procedure"} -> <<"execute", "commit">>
      [] OTHER -> << >>

BodySteps(op, commit) ==
    CASE op \in {"execute_query", "test_connection"} -> <<"execute", "fetch">>
      [] op = "execute_dml" ->
            IF commit THEN <<"execute", "commit">> ELSE <<"execute">>
      [] op = "execute_procedure" -> <<"execute", "commit">>
      [] OTHER -> << >>

\* The ways the body can end: every call goes through, or one of them raises
BodyEndings(op, commit) ==
    {NoExc, Raised("oracledb.Error", "execute")}
      \cup (IF op \in {"execute_query", "test_connection"}
            THEN {Raised("oracledb.Error", "fetch")} ELSE {})
      \cup (IF op = "execute_procedure" \/ (op = "execute_dml" /\ commit)
            THEN {Raised("oracledb.Error", "commit")} ELSE {})

\* The calls the body made when it ended with e: all of them, or those up to
\* and including the one that raised
BodyRan(op, commit, e) ==
    LET steps == BodySteps(op, commit)
    IN  IF e = NoExc THEN steps
        ELSE SubSeq(steps, 1, CHOOSE i \in 1..Len(steps) : steps[i] = e.at)

\* A session thread calls a gateway operation
DbCall(t, op, commit) ==
    /\ tpc[t] = "idle"
    /\ top' = [top EXCEPT ![t] = op]
    /\ targ' = [targ EXCEPT ![t] = commit]
    /\ tpc' = [tpc EXCEPT ![t] = "check_pool"]
    /\ ran' = [ran EXCEPT ![t] = << >>]
    /\ UNCHANGED <<pool, created, conn, exc, closedPools>>

\* get_connection:  if cls._pool is None: cls.initialize_pool()
\* initialize_pool: if cls._pool is None: ... (otherwise it does nothing)
\* The second read decides: a thread that finds the pool at either read goes on
\* without creating one.
CheckPool(t) ==
    /\ tpc[t] = "check_pool"
    /\ tpc' = [tpc EXCEPT ![t] =
                 IF pool = NoPool THEN "create_pool"
                 ELSE IF top[t] = "initialize_pool" THEN "return" ELSE "acquire"]
    /\ UNCHANGED <<pool, created, top, targ, conn, exc, ran, closedPools>>

\* initialize_pool:  cls._pool = oracledb.create_pool(...), or the error is
\* reported and raised again (get_connection calls it outside its try)
CreatePoolTriesTwice(t, ok) ==
    /\ tpc[t] = "create_pool"
    /\ IF ok
       THEN /\ created < MaxPools
            /\ created' = created + 1
            /\ pool' = created + 1
            /\ tpc' = [tpc EXCEPT ![t] =
                         IF top[t] = "initialize_pool" THEN "return" ELSE "acquire"]
            /\ ran' = [ran EXCEPT ![t] = Append(@, "create_pool")]
            /\ UNCHANGED exc
       ELSE /\ exc' = [exc EXCEPT ![t] = Raised("oracledb.Error", "create")]
            /\ tpc' = [tpc EXCEPT ![t] = "return"]
            /\ ran' = [ran EXCEPT ![t] = @ \o <<"create_pool", "create_pool">>]
            /\ UNCHANGED <<pool, created>>
    /\ UNCHANGED <<top, targ, conn, closedPools>>

CreatePool(t, ok) ==
    /\ tpc[t] = "create_pool"
    /\ IF ok
       THEN /\ created < MaxPools
            /\ created' = created + 1
            /\ pool' = created + 1
            /\ tpc' = [tpc EXCEPT ![t] =
                         IF top[t] = "initialize_pool" THEN "return" ELSE "acquire"]
            /\ UNCHANGED exc
       ELSE /\ exc' = [exc EXCEPT ![t] = Raised("oracledb.Error", "create")]
            /\ tpc' = [tpc EXCEPT ![t] = "return"]
            /\ UNCHANGED <<pool, created>>
    /\ ran' = [ran EXCEPT ![t] = Append(@, "create_pool")]
    /\ UNCHANGED <<top, targ, conn, closedPools>>

\* get_connection:  connection = cls._pool.acquire()
Acquire(t, ok) ==
    /\ tpc[t] = "acquire"
    /\ IF pool = NoPool
       THEN \* None has no attribute acquire
            /\ exc' = [exc EXCEPT ![t] = Raised("AttributeError", "acquire")]
            /\ tpc' = [tpc EXCEPT ![t] = "return"]
            /\ UNCHANGED <<conn, ran>>
       ELSE IF IsClosed(pool)
       THEN \* the handle still names a pool that close_pool has just closed
            /\ exc' = [exc EXCEPT ![t] = Raised("oracledb.Error", "acquire")]
            /\ tpc' = [tpc EXCEPT ![t] = "return"]
            /\ ran' = [ran EXCEPT ![t] = Append(@, "acquire")]
            /\ UNCHANGED conn
       ELSE IF ok
       THEN /\ PoolHasFree(pool)
            /\ conn' = [conn EXCEPT ![t] = pool]
            /\ tpc' = [tpc EXCEPT ![t] = "body"]
            /\ ran' = [ran EXCEPT ![t] = Append(@, "acquire")]
            /\ UNCHANGED exc
       ELSE /\ exc' = [exc EXCEPT ![t] = Raised("oracledb.Error", "acquire")]
            /\ tpc' = [tpc EXCEPT ![t] = "return"]
            /\ ran' = [ran EXCEPT ![t] = Append(@, "acquire")]
            /\ UNCHANGED conn
    /\ UNCHANGED <<pool, created, top, targ, closedPools>>

\* get_connection, finally:  if connection: cls._pool.release(connection)
\* pool.release closes the connection, which returns it to the pool it came
\* from; with no pool handle left, None has no attribute release, and a
\* pool that is closed refuses the call: the connection stays out.  The
\* result is <<connection held, exception>>.
ReleasedOnFailureOnly(c, e) ==
    IF e.type = "none" THEN <<c, e>> ELSE <<NoConn, e>>

ReleasedOnSuccessOnly(c, e) ==
    IF e.type = "none" THEN <<NoConn, e>> ELSE <<c, e>>

Released(c, e) ==
    IF c = NoConn THEN <<c, e>>
    ELSE IF pool = NoPool THEN <<c, Raised("AttributeError", "release")>>
    ELSE IF IsClosed(pool) THEN <<c, Raised("oracledb.Error", "release")>>
    ELSE <<NoConn, e>>

\* The body of the with block runs to one of its endings, and get_connection
\* leaves through its finally
BodyAndRelease(t, e) ==
    /\ tpc[t] = "body"
    /\ e \in BodyEndings(top[t], targ[t])
    /\ conn' = [conn EXCEPT ![t] = Released(conn[t], e)[1]]
    /\ exc' = [exc EXCEPT ![t] = Released(conn[t], e)[2]]
    /\ ran' = [ran EXCEPT ![t] =
                 @ \o BodyRan(top[t], targ[t], e)
                   \o (IF pool # NoPool THEN <<"release">> ELSE << >>)]
    /\ tpc' = [tpc EXCEPT ![t] = "return"]
    /\ UNCHANGED <<pool, created, top, targ, closedPools>>

\* The operation returns Outcome(top[t], exc[t]) to its caller, or raises past
\* it; the session thread is free for its next call
Return(t) ==
    /\ tpc[t] = "return"
    /\ tpc' = [tpc EXCEPT ![t] = "idle"]
    /\ top' = [top EXCEPT ![t] = "none"]
    /\ targ' = [targ EXCEPT ![t] = FALSE]
    /\ exc' = [exc EXCEPT ![t] = NoExc]
    /\ ran' = [ran EXCEPT ![t] = << >>]
    /\ UNCHANGED <<pool, created, conn, closedPools>>

\* The module is imported: no pool yet, no session is in an operation
InitDb ==
    /\ pool = NoPool
    /\ created = 0
    /\ top = [t \in Threads |-> "none"]
    /\ targ = [t \in Threads |-> FALSE]
    /\ tpc = [t \in Threads |-> "idle"]
    /\ conn = [t \in Threads |-> NoConn]
    /\ exc = [t \in Threads |-> NoExc]
    /\ ran = [t \in Threads |-> << >>]
    /\ closedPools = << >>

\* The calls a session can make: commit is an argument of execute_dml only
DbCalls ==
    {<<op, FALSE>> : op \in DbOperations \cup {"initialize_pool"}}
        \cup {<<"execute_dml", TRUE>>}

AllEndings == UNION {BodyEndings(c[1], c[2]) : c \in DbCalls}

NextDb ==
    \/ \E t \in Threads, c \in DbCalls :
          DbCall(t, c[1], c[2]) /\ UNCHANGED <<authVars, appVars, apiVars, cfgVars>>
    \/ \E t \in Threads : CheckPool(t) /\ UNCHANGED <<authVars, appVars, apiVars, cfgVars>>
    \/ \E t \in Threads, ok \in BOOLEAN :
          CreatePool(t, ok) /\ UNCHANGED <<authVars, appVars, apiVars, cfgVars>>
    \/ \E t \in Threads, ok \in BOOLEAN :
          Acquire(t, ok) /\ UNCHANGED <<authVars, appVars, apiVars, cfgVars>>
    \/ \E t \in Threads, e \in AllEndings :
          BodyAndRelease(t, e) /\ UNCHANGED <<authVars, appVars, apiVars, cfgVars>>
    \/ \E t \in Threads : Return(t) /\ UNCHANGED <<authVars, appVars, apiVars, cfgVars>>

(* Scheduling.  Every session thread keeps running: a step of an operation *)
(* that can be taken is taken in the end, the statement it executes        *)
(* finishing one way or the other.  A thread inside acquire() waits on the *)
(* pool (getmode is the driver's default, wait); the pool wakes its        *)
(* waiters at every release, so a waiter that finds a connection free      *)
(* again and again gets one in the end.  Nothing makes a session start an  *)
(* operation, and nothing makes a checkout fail.                           *)

Runs(t) ==
    /\ \/ CheckPool(t)
       \/ \E ok \in BOOLEAN : CreatePool(t, ok)
       \/ \E e \in AllEndings : BodyAndRelease(t, e)
       \/ Return(t)
    /\ UNCHANGED <<authVars, appVars, apiVars, cfgVars>>

Checkout(t) ==
    /\ Acquire(t, TRUE)
    /\ UNCHANGED <<authVars, appVars, apiVars, cfgVars>>

FairDb == \A t \in Threads : WF_vars(Runs(t)) /\ SF_vars(Checkout(t))

(* close_pool.  Nothing in the dashboard calls it; a shutdown hook or a     *)
(* test may, while sessions are running.  It reads the shared handle three *)
(* times, so it takes three steps.                                         *)

\* A session thread calls close_pool
CallClosePool(t) ==
    /\ tpc[t] = "idle"
    /\ top' = [top EXCEPT ![t] = "close_pool"]
    /\ tpc' = [tpc EXCEPT ![t] = "close_check"]
    /\ ran' = [ran EXCEPT ![t] = << >>]
    /\ UNCHANGED <<pool, created, targ, conn, exc, closedPools>>

\* close_pool:  if cls._pool:
CloseCheck(t) ==
    /\ tpc[t] = "close_check"
    /\ tpc' = [tpc EXCEPT ![t] = IF pool = NoPool THEN "return" ELSE "close_close"]
    /\ UNCHANGED <<pool, created, top, targ, conn, exc, ran, closedPools>>

\* close_pool:  cls._pool.close()
\* None has no attribute close; a pool that is closed already, or that has
\* connections out, refuses the call with an oracledb.Error.  close_pool
\* handles neither: the exception leaves it.
CloseCloseAgain(t) ==
    /\ tpc[t] = "close_close"
    /\ IF pool = NoPool
       THEN /\ exc' = [exc EXCEPT ![t] = Raised("AttributeError", "close")]
            /\ tpc' = [tpc EXCEPT ![t] = "return"]
            /\ UNCHANGED <<ran, closedPools>>
       ELSE IF Busy(pool) > 0
       THEN /\ exc' = [exc EXCEPT ![t] = Raised("oracledb.Error", "close")]
            /\ tpc' = [tpc EXCEPT ![t] = "return"]
            /\ ran' = [ran EXCEPT ![t] = Append(@, "close")]
            /\ UNCHANGED closedPools
       ELSE /\ closedPools' = Append(closedPools, pool)
            /\ ran' = [ran EXCEPT ![t] = Append(@, "close")]
            /\ tpc' = [tpc EXCEPT ![t] = "close_assign"]
            /\ UNCHANGED exc
    /\ UNCHANGED <<pool, created, top, targ, conn>>

CloseClose(t) ==
    /\ tpc[t] = "close_close"
    /\ IF pool = NoPool
       THEN /\ exc' = [exc EXCEPT ![t] = Raised("AttributeError", "close")]
            /\ tpc' = [tpc EXCEPT ![t] = "return"]
            /\ UNCHANGED <<ran, closedPools>>
       ELSE IF IsClosed(pool) \/ Busy(pool) > 0
       THEN /\ exc' = [exc EXCEPT ![t] = Raised("oracledb.Error", "close")]
            /\ tpc' = [tpc EXCEPT ![t] = "return"]
            /\ ran' = [ran EXCEPT ![t] = Append(@, "close")]
            /\ UNCHANGED closedPools
       ELSE /\ closedPools' = Append(closedPools, pool)
            /\ ran' = [ran EXCEPT ![t] = Append(@, "close")]
            /\ tpc' = [tpc EXCEPT ![t] = "close_assign"]
            /\ UNCHANGED exc
    /\ UNCHANGED <<pool, created, top, targ, conn>>

\* close_pool:  cls._pool = None
CloseAssign(t) ==
    /\ tpc[t] = "close_assign"
    /\ pool' = NoPool
    /\ tpc' = [tpc EXCEPT ![t] = "return"]
    /\ UNCHANGED <<created, top, targ, conn, exc, ran, closedPools>>

\* The sessions that run while close_pool may be called: two of them, one
\* to close the pool and one to be caught in an operation
ClosingThreads == {1, 2}

NextDbClose ==
    \/ \E t \in ClosingThreads, c \in DbCalls :
          DbCall(t, c[1], c[2]) /\ UNCHANGED <<authVars, appVars, apiVars, cfgVars>>
    \/ \E t \in ClosingThreads :
          CheckPool(t) /\ UNCHANGED <<authVars, appVars, apiVars, cfgVars>>
    \/ \E t \in ClosingThreads, ok \in BOOLEAN :
          CreatePool(t, ok) /\ UNCHANGED <<authVars, appVars, apiVars, cfgVars>>
    \/ \E t \in ClosingThreads, ok \in BOOLEAN :
          Acquire(t, ok) /\ UNCHANGED <<authVars, appVars, apiVars, cfgVars>>
    \/ \E t \in ClosingThreads, e \in AllEndings :
          BodyAndRelease(t, e) /\ UNCHANGED <<authVars, appVars, apiVars, cfgVars>>
    \/ \E t \in ClosingThreads :
          Return(t) /\ UNCHANGED <<authVars, appVars, apiVars, cfgVars>>
    \/ \E t \in ClosingThreads :
          CallClosePool(t) /\ UNCHANGED <<authVars, appVars, apiVars, cfgVars>>
    \/ \E t \in ClosingThreads :
          CloseCheck(t) /\ UNCHANGED <<authVars, appVars, apiVars, cfgVars>>
    \/ \E t \in ClosingThreads :
          CloseClose(t) /\ UNCHANGED <<authVars, appVars, apiVars, cfgVars>>
    \/ \E t \in ClosingThreads :
          CloseAssign(t) /\ UNCHANGED <<authVars, appVars, apiVars, cfgVars>>

-----------------------------------------------------------------------------
(* API Gateway: src/python/utils/api_client.py                             *)
(* Python values are records [kind, items]: a dict is its set of           *)
(* <<key, value>> pairs, values written as text; None, True, False and a   *)
(* list are kinds of their own.  Text that the code takes apart (the base  *)
(* URL, an endpoint) is a sequence of pieces, "/" being a piece.           *)

ORDS_BASE_URL == <<"https://localhost:8443", "/", "ords", "/", "hcc_advisor">>
ORDS_USERNAME == "hcc_advisor"
ORDS_PASSWORD == ""
API_TIMEOUT == 30

PyNone == [kind |-> "None", items |-> {}]
PyTrue == [kind |-> "True", items |-> {}]
PyFalse == [kind |-> "False", items |-> {}]
PyList == [kind |-> "list", items |-> {}]
PyDict(items) == [kind |-> "dict", items |-> items]

\* The keys of a dict, and d.get(k) as text ("None" when k is absent)
Keys(d) == {kv[1] : kv \in d.items}
DictGet(d, k) ==
    IF k \in Keys(d) THEN (CHOOSE kv \in d.items : kv[1] = k)[2] ELSE "None"

\* text.rstrip('/') and text.lstrip('/')
RECURSIVE RStrip(_)
RStrip(text) ==
    IF text # << >> /\ text[Len(text)] = "/"
    THEN RStrip(SubSeq(text, 1, Len(text) - 1)) ELSE text

RECURSIVE LStrip(_)
LStrip(text) ==
    IF text # << >> /\ Head(text) = "/" THEN LStrip(Tail(text)) ELSE text

\* ORDSClient.__init__
base_url == RStrip(ORDS_BASE_URL)
auth == [username |-> ORDS_USERNAME, password |-> ORDS_PASSWORD]
timeout == API_TIMEOUT
verify_ssl == FALSE

\* _make_request:  url = f"{self.base_url}/{endpoint.lstrip('/')}"
Url(endpoint) == client.base_url \o <<"/">> \o LStrip(endpoint)

(* What the network and the remote service can answer                      *)

\* No answer: requests raises a subclass of RequestException whose text is
\* the text of the urllib3 error it wraps
TransportFailures ==
    { [fail |-> "ConnectTimeout", text |-> "connect timeout=30"],
      [fail |-> "ReadTimeout", text |-> "Read timed out."],
      [fail |-> "ConnectionError", text |-> "Connection refused"],
      [fail |-> "SSLError", text |-> "CERTIFICATE_VERIFY_FAILED"] }

\* The status of the response requests hands back (redirects followed)
Statuses == {101, 200, 201, 204, 300, 304, 400, 401, 404, 500, 503}

\* Its body: JSON text that parses to a value, or text that does not parse.
\* response.json() then raises requests.exceptions.JSONDecodeError, a
\* RequestException, from requests 2.27 on, and a plain ValueError before.
Bodies ==
    { [parses |-> "yes", value |-> PyDict({<<"status", "healthy">>})],
      [parses |-> "yes", value |-> PyDict({<<"status", "degraded">>})],
      [parses |-> "yes", value |-> PyDict({<<"items", "[...]">>})],
      [parses |-> "yes", value |-> PyDict({<<"error", "ORA-00942">>})],
      [parses |-> "yes", value |-> PyList],
      [parses |-> "RequestException", value |-> PyNone],
      [parses |-> "ValueError", value |-> PyNone] }

\* A 101, 204 or 304 response carries no body, and no body does not parse
EmptyBodies == {b \in Bodies : b.parses # "yes"}
Bodiless == {101, 304}

NoBody == [parses |-> "RequestException", value |-> PyNone]

Answers ==
    { [fail |-> f.fail, text |-> f.text, status |-> 0, body |-> NoBody] :
         f \in TransportFailures }
      \cup
    { [fail |-> "none", text |-> "", status |-> st, body |-> b] :
         st \in Statuses \ (Bodiless \cup {204}), b \in Bodies }
      \cup
    { [fail |-> "none", text |-> "", status |-> st, body |-> b] :
         st \in Bodiless \cup {204}, b \in EmptyBodies }

\* Response.raise_for_status: the text of the HTTPError, "" when none is raised
HTTPErrorText(status) ==
    IF status >= 400 /\ status < 500 THEN ToString(status) \o " Client Error"
    ELSE IF status >= 500 /\ status < 600 THEN ToString(status) \o " Server Error"
    ELSE ""

Envelope(text) == PyDict({<<"error", text>>})

\* The call made it back to its caller with a value / raised past its caller
Gave(sent, v) == [http |-> sent, raised |-> "none", value |-> v]
Threw(sent, e) == [http |-> sent, raised |-> e, value |-> PyNone]

\* ORDSClient._make_request
MakeRequestLetsTransportThrough(method, endpoint, params, json_data, a) ==
    LET sent == << [method |-> method, url |-> Url(endpoint),
                    auth |-> client.auth,
                    params |-> params, json |-> json_data,
                    timeout |-> client.timeout,
                    verify |-> client.verify_ssl] >>
    IN  IF a.fail # "none" THEN Threw(sent, a.fail)
        ELSE IF HTTPErrorText(a.status) # ""
             THEN Gave(sent, Envelope(HTTPErrorText(a.status)))
        ELSE IF a.status = 204 THEN Gave(sent, PyDict({<<"success", "True">>}))
        ELSE IF a.body.parses = "yes" THEN Gave(sent, a.body.value)
        ELSE IF a.body.parses = "RequestException"
             THEN Gave(sent, Envelope("Expecting value"))
        ELSE Threw(sent, a.body.parses)

MakeRequestParsesFirst(method, endpoint, params, json_data, a) ==
    LET sent == << [method |-> method, url |-> Url(endpoint),
                    auth |-> client.auth,
                    params |-> params, json |-> json_data,
                    timeout |-> client.timeout,
                    verify |-> client.verify_ssl] >>
    IN  IF a.fail # "none" THEN Gave(sent, Envelope(a.text))
        ELSE IF HTTPErrorText(a.status) # ""
             THEN Gave(sent, Envelope(HTTPErrorText(a.status)))
        ELSE IF a.body.parses = "RequestException"
             THEN Gave(sent, Envelope("Expecting value"))
        ELSE IF a.body.parses # "yes" THEN Threw(sent, a.body.parses)
        ELSE IF a.status = 204 THEN Gave(sent, PyDict({<<"success", "True">>}))
        ELSE Gave(sent, a.body.value)

MakeRequestTriesAgain(method, endpoint, params, json_data, a) ==
    LET sent == << [method |-> method, url |-> Url(endpoint),
                    auth |-> client.auth,
                    params |-> params, json |-> json_data,
                    timeout |-> client.timeout,
                    verify |-> client.verify_ssl] >>
    IN  IF a.fail # "none" THEN Gave(sent \o sent, Envelope(a.text))
        ELSE IF HTTPErrorText(a.status) # ""
             THEN Gave(sent, Envelope(HTTPErrorText(a.status)))
        ELSE IF a.status = 204 THEN Gave(sent, PyDict({<<"success", "True">>}))
        ELSE IF a.body.parses = "yes" THEN Gave(sent, a.body.value)
        ELSE IF a.body.parses = "RequestException"
             THEN Gave(sent, Envelope("Expecting value"))
        ELSE Threw(sent, a.body.parses)

MakeRequest(method, endpoint, params, json_data, a) ==
    LET sent == << [method |-> method, url |-> Url(endpoint),
                    auth |-> client.auth,
                    params |-> params, json |-> json_data,
                    timeout |-> client.timeout,
                    verify |-> client.verify_ssl] >>
    IN  IF a.fail # "none" THEN Gave(sent, Envelope(a.text))
        ELSE IF HTTPErrorText(a.status) # ""
             THEN Gave(sent, Envelope(HTTPErrorText(a.status)))
        ELSE IF a.status = 204 THEN Gave(sent, PyDict({<<"success", "True">>}))
        ELSE IF a.body.parses = "yes" THEN Gave(sent, a.body.value)
        ELSE IF a.body.parses = "RequestException"
             THEN Gave(sent, Envelope("Expecting value"))
        ELSE Threw(sent, a.body.parses)

\* ORDSClient.get / post / put / delete: which arguments each passes on
Verbs == {"GET", "POST", "PUT", "DELETE"}

VerbRequest(method, endpoint, params, json_data, a) ==
    MakeRequest(method, endpoint,
                IF method = "GET" THEN params ELSE PyNone,
                IF method \in {"POST", "PUT"} THEN json_data ELSE PyNone,
                a)

\* ORDSClient.health_check: any exception, its own AttributeError on a
\* response that is no dict included, becomes False
HealthCheckResult(a) ==
    LET r == VerbRequest("GET", <<"health">>, PyNone, PyNone, a)
    IN  IF r.raised # "none" THEN Gave(r.http, PyFalse)
        ELSE IF r.value.kind # "dict" THEN Gave(r.http, PyFalse)
        ELSE IF DictGet(r.value, "status") = "healthy" THEN Gave(r.http, PyTrue)
        ELSE Gave(r.http, PyFalse)

\* ORDSClient.get_recommendations: the query parameters it builds
\* (if strategy:  is false for None and for the empty string)
RecommendationParamsDropFalsy(strategy, min_savings_pct, limit) ==
    PyDict({<<"limit", limit>>}
             \cup (IF min_savings_pct # 0
                   THEN {<<"min_savings_pct", min_savings_pct>>} ELSE {})
             \cup (IF strategy \notin {None, ""}
                   THEN {<<"strategy", strategy>>} ELSE {}))

RecommendationParams(strategy, min_savings_pct, limit) ==
    PyDict({<<"min_savings_pct", min_savings_pct>>, <<"limit", limit>>}
             \cup (IF strategy \notin {None, ""}
                   THEN {<<"strategy", strategy>>} ELSE {}))

\* ORDSClient.batch_execute: the JSON body it builds
BatchBodyFirstOnly(recommendation_ids, dry_run, parallel_degree) ==
    PyDict({<<"recommendation_ids",
              SubSeq(recommendation_ids, 1, IF recommendation_ids = << >> THEN 0 ELSE 1)>>,
            <<"dry_run", dry_run>>,
            <<"parallel_degree", parallel_degree>>})

BatchBody(recommendation_ids, dry_run, parallel_degree) ==
    PyDict({<<"recommendation_ids", recommendation_ids>>,
            <<"dry_run", dry_run>>,
            <<"parallel_degree", parallel_degree>>})

\* ORDSClient.export_recommendations_csv: the query parameters it builds
ExportParams(strategy) ==
    PyDict(IF strategy \notin {None, ""} THEN {<<"strategy", strategy>>} ELSE {})

\* response.text
BodyText(status, b) ==
    IF b.parses = "yes" THEN ToString(b.value)
    ELSE IF status \in Bodiless \cup {204} THEN ""
    ELSE "<html>"

PyStr(text) == [kind |-> "str", items |-> {<<"text", text>>}]

\* ORDSClient.export_recommendations_csv: it sends its request itself, with
\* requests.get, and returns the text of the response or ""
ExportResultSendsBare(params, a) ==
    LET sent == << [method |-> "GET",
                    url |-> client.base_url
                              \o <<"/", "export", "/", "recommendations", "/", "csv">>,
                    auth |-> [username |-> "", password |-> ""],
                    params |-> params, json |-> PyNone,
                    timeout |-> client.timeout,
                    verify |-> client.verify_ssl] >>
    IN  IF a.fail # "none" THEN Gave(sent, PyStr(""))
        ELSE IF HTTPErrorText(a.status) # "" THEN Gave(sent, PyStr(""))
        ELSE Gave(sent, PyStr(BodyText(a.status, a.body)))

ExportResult(params, a) ==
    LET sent == << [method |-> "GET",
                    url |-> client.base_url
                              \o <<"/", "export", "/", "recommendations", "/", "csv">>,
                    auth |-> client.auth,
                    params |-> params, json |-> PyNone,
                    timeout |-> client.timeout,
                    verify |-> client.verify_ssl] >>
    IN  IF a.fail # "none" THEN Gave(sent, PyStr(""))
        ELSE IF HTTPErrorText(a.status) # "" THEN Gave(sent, PyStr(""))
        ELSE Gave(sent, PyStr(BodyText(a.status, a.body)))

(* The calls a page makes                                                  *)

Endpoints == { <<"health">>, <<"/", "recommendations">>,
               <<"compression", "/", "batch">> }
ParamSets == { PyNone, PyDict({<<"limit", "50">>}) }
JsonBodies == { PyNone, PyDict({<<"min_size_mb", "100.0">>}) }

Called(op, method, endpoint, params, json_data) ==
    [op |-> op, method |-> method, endpoint |-> endpoint,
     params |-> params, json |-> json_data]

\* The arguments pages call the named operations with
Strategies == {None, "", "OLTP"}
SavingsPcts == {0, 10}
Limits == {10, 100}
MaxIds == 2
RECURSIVE IdLists(_)
IdLists(n) ==
    IF n = 0 THEN {<< >>}
    ELSE IdLists(n - 1)
           \cup {Append(ids, i) : ids \in {l \in IdLists(n - 1) : Len(l) = n - 1},
                                  i \in {7, 9}}
ParallelDegrees == {1, 4}

NoArgs == [none |-> TRUE]

NoAnswer == [fail |-> "none", text |-> "", status |-> 0, body |-> NoBody]
NoReturn == [raised |-> "none", value |-> PyNone]

\* A page calls client.get(endpoint, params), client.post(endpoint,
\* json_data), client.put(endpoint, json_data) or client.delete(endpoint)
ApiRequest(method, endpoint, params, json_data) ==
    /\ apiPc = "idle"
    /\ apiPc' = "waiting"
    /\ apiCall' = Called("request", method, endpoint, params, json_data)
    /\ apiArgs' = NoArgs
    /\ server' = NoAnswer
    /\ http' = << >>
    /\ apiRet' = NoReturn
    /\ UNCHANGED client

\* A page calls client.health_check()
ApiHealthCheck ==
    /\ apiPc = "idle"
    /\ apiPc' = "waiting"
    /\ apiCall' = Called("health_check", "GET", <<"health">>, PyNone, PyNone)
    /\ apiArgs' = NoArgs
    /\ server' = NoAnswer
    /\ http' = << >>
    /\ apiRet' = NoReturn
    /\ UNCHANGED client

\* A page calls client.get_recommendations(strategy, min_savings_pct, limit):
\* return self.get("recommendations", params)
ApiGetRecommendations(strategy, min_savings_pct, limit) ==
    /\ apiPc = "idle"
    /\ apiPc' = "waiting"
    /\ apiCall' = Called("get_recommendations", "GET", <<"recommendations">>,
                         RecommendationParams(strategy, min_savings_pct, limit),
                         PyNone)
    /\ apiArgs' = [strategy |-> strategy, min_savings_pct |-> min_savings_pct,
                   limit |-> limit]
    /\ server' = NoAnswer
    /\ http' = << >>
    /\ apiRet' = NoReturn
    /\ UNCHANGED client

\* A page calls client.batch_execute(recommendation_ids, dry_run,
\* parallel_degree):  return self.post("compression/batch", {...})
ApiBatchExecute(recommendation_ids, dry_run, parallel_degree) ==
    /\ apiPc = "idle"
    /\ apiPc' = "waiting"
    /\ apiCall' = Called("batch_execute", "POST", <<"compression", "/", "batch">>,
                         PyNone,
                         BatchBody(recommendation_ids, dry_run, parallel_degree))
    /\ apiArgs' = [recommendation_ids |-> recommendation_ids,
                   dry_run |-> dry_run, parallel_degree |-> parallel_degree]
    /\ server' = NoAnswer
    /\ http' = << >>
    /\ apiRet' = NoReturn
    /\ UNCHANGED client

\* A page calls client.export_recommendations_csv(strategy)
ApiExportCsv(strategy) ==
    /\ apiPc = "idle"
    /\ apiPc' = "waiting"
    /\ apiCall' = Called("export_recommendations_csv", "GET",
                         <<"export", "/", "recommendations", "/", "csv">>,
                         ExportParams(strategy), PyNone)
    /\ apiArgs' = [strategy |-> strategy]
    /\ server' = NoAnswer
    /\ http' = << >>
    /\ apiRet' = NoReturn
    /\ UNCHANGED client

\* requests.request(...) comes back with the answer a, and the call runs
\* to its return
ApiAnswer(a) ==
    LET r == IF apiCall.op = "health_check" THEN HealthCheckResult(a)
             ELSE IF apiCall.op = "export_recommendations_csv"
                  THEN ExportResult(apiCall.params, a)
             ELSE VerbRequest(apiCall.method, apiCall.endpoint,
                              apiCall.params, apiCall.json, a)
    IN  /\ apiPc = "waiting"
        /\ apiPc' = "idle"
        /\ server' = a
        /\ http' = r.http
        /\ apiRet' = [raised |-> r.raised, value |-> r.value]
        /\ UNCHANGED <<client, apiCall, apiArgs>>

\* The client is constructed; nothing was called yet
InitApi ==
    /\ client = [base_url |-> base_url, auth |-> auth,
                 timeout |-> timeout, verify_ssl |-> verify_ssl]
    /\ apiPc = "idle"
    /\ apiArgs = NoArgs
    /\ apiCall = Called("none", "none", << >>, PyNone, PyNone)
    /\ server = NoAnswer
    /\ http = << >>
    /\ apiRet = NoReturn

NextApi ==
    \/ \E m \in Verbs, ep \in Endpoints, ps \in ParamSets, js \in JsonBodies :
          ApiRequest(m, ep, ps, js) /\ UNCHANGED <<authVars, appVars, dbVars, cfgVars>>
    \/ ApiHealthCheck /\ UNCHANGED <<authVars, appVars, dbVars, cfgVars>>
    \/ \E st \in Strategies, m \in SavingsPcts, l \in Limits :
          ApiGetRecommendations(st, m, l) /\ UNCHANGED <<authVars, appVars, dbVars, cfgVars>>
    \/ \E ids \in IdLists(MaxIds), dry \in BOOLEAN, pd \in ParallelDegrees :
          ApiBatchExecute(ids, dry, pd) /\ UNCHANGED <<authVars, appVars, dbVars, cfgVars>>
    \/ \E st \in Strategies :
          ApiExportCsv(st) /\ UNCHANGED <<authVars, appVars, dbVars, cfgVars>>
    \/ \E a \in Answers :
          ApiAnswer(a) /\ UNCHANGED <<authVars, appVars, dbVars, cfgVars>>

-----------------------------------------------------------------------------
(* Both gateways in one session: a page calls the API Gateway and the      *)
(* Database Gateway in turn (app.py:113, 119)                              *)

OneSession == {1}

NextGateways ==
    \/ \E m \in Verbs :
          ApiRequest(m, <<"health">>, PyNone, PyNone)
            /\ UNCHANGED <<authVars, appVars, dbVars, cfgVars>>
    \/ ApiHealthCheck /\ UNCHANGED <<authVars, appVars, dbVars, cfgVars>>
    \/ ApiGetRecommendations(None, 10, 100) /\ UNCHANGED <<authVars, appVars, dbVars, cfgVars>>
    \/ \E ids \in IdLists(MaxIds) :
          ApiBatchExecute(ids, TRUE, 4) /\ UNCHANGED <<authVars, appVars, dbVars, cfgVars>>
    \/ ApiExportCsv(None) /\ UNCHANGED <<authVars, appVars, dbVars, cfgVars>>
    \/ \E a \in Answers : ApiAnswer(a) /\ UNCHANGED <<authVars, appVars, dbVars, cfgVars>>
    \/ \E t \in OneSession, c \in DbCalls :
          DbCall(t, c[1], c[2]) /\ UNCHANGED <<authVars, appVars, apiVars, cfgVars>>
    \/ \E t \in OneSession :
          CheckPool(t) /\ UNCHANGED <<authVars, appVars, apiVars, cfgVars>>
    \/ \E t \in OneSession, ok \in BOOLEAN :
          CreatePool(t, ok) /\ UNCHANGED <<authVars, appVars, apiVars, cfgVars>>
    \/ \E t \in OneSession, ok \in BOOLEAN :
          Acquire(t, ok) /\ UNCHANGED <<authVars, appVars, apiVars, cfgVars>>
    \/ \E t \in OneSession, e \in AllEndings :
          BodyAndRelease(t, e) /\ UNCHANGED <<authVars, appVars, apiVars, cfgVars>>
    \/ \E t \in OneSession : Return(t) /\ UNCHANGED <<authVars, appVars, apiVars, cfgVars>>

-----------------------------------------------------------------------------
(* Configuration and the connectivity check: src/python/config.py and      *)
(* src/python/test_connection.py.  The Config class reads the environment  *)
(* once, when config.py is imported; validate_config and the connection    *)
(* tests also look whether the certificate and key files exist.            *)

\* What the process can find: each password set or not, SSL_ENABLED, and
\* the two files present or not
Environs ==
    [DB_PASSWORD : {"", "s3cret"}, ORDS_PASSWORD : {"", "s3cret"},
     SSL_ENABLED : BOOLEAN, cert_exists : BOOLEAN, key_exists : BOOLEAN]

\* Nothing is set and no file exists: every setting takes its default
NoEnviron ==
    [DB_PASSWORD |-> "", ORDS_PASSWORD |-> ORDS_PASSWORD,
     SSL_ENABLED |-> TRUE, cert_exists |-> FALSE, key_exists |-> FALSE]

\* Config.validate_config: the list of messages it returns
validate_configStopsAtFirst(e) ==
    IF e.DB_PASSWORD = "" THEN <<"DB_PASSWORD not set">>
    ELSE IF e.ORDS_PASSWORD = "" THEN <<"ORDS_PASSWORD not set">>
    ELSE IF e.SSL_ENABLED /\ ~e.cert_exists THEN <<"SSL certificate not found">>
    ELSE IF e.SSL_ENABLED /\ ~e.key_exists THEN <<"SSL key not found">>
    ELSE << >>

validate_config(e) ==
    (IF e.DB_PASSWORD = "" THEN <<"DB_PASSWORD not set">> ELSE << >>)
      \o (IF e.ORDS_PASSWORD = "" THEN <<"ORDS_PASSWORD not set">> ELSE << >>)
      \o (IF e.SSL_ENABLED
          THEN (IF ~e.cert_exists THEN <<"SSL certificate not found">> ELSE << >>)
                 \o (IF ~e.key_exists THEN <<"SSL key not found">> ELSE << >>)
          ELSE << >>)

\* test_ssl_certificates: the value it returns
test_ssl_certificates(e) ==
    IF e.SSL_ENABLED THEN e.cert_exists /\ e.key_exists ELSE TRUE

\* ORDSClient(): the client built from the configuration that was read
ORDSClient(e) ==
    [base_url |-> base_url,
     auth |-> [username |-> ORDS_USERNAME, password |-> e.ORDS_PASSWORD],
     timeout |-> timeout, verify_ssl |-> verify_ssl]

NotRun == <<"not run">>
NoResults == [tests |-> << >>, code |-> -1]

\* main appends the result of a connection test
Result(r, v) == [r EXCEPT !.tests = Append(@, v)]

\* main:  errors = config.validate_config(); the errors are printed and
\* main goes on to the tests
MainValidate ==
    /\ mpc = "start"
    /\ errors' = validate_config(environ)
    /\ mpc' = "ssl"
    /\ UNCHANGED <<environ, results, poolArgs>>

\* main:  "SSL Configuration": test_ssl_certificates()
MainTestSsl ==
    /\ mpc = "ssl"
    /\ results' = Result(results, test_ssl_certificates(environ))
    /\ mpc' = "db_init"
    /\ UNCHANGED <<environ, errors, poolArgs>>

\* test_database_connection calls, in turn, initialize_pool,
\* test_connection and execute_query
DbStages == {"db_init", "db_test", "db_version"}
StageOp(stage) ==
    CASE stage = "db_init" -> "initialize_pool"
      [] stage = "db_test" -> "test_connection"
      [] stage = "db_version" -> "execute_query"
      [] OTHER -> "none"

MainDbCall ==
    /\ mpc \in DbStages
    /\ DbCall(1, StageOp(mpc), FALSE)
    /\ UNCHANGED cfgVars

MainCheckPool ==
    /\ mpc \in DbStages
    /\ CheckPool(1)
    /\ UNCHANGED cfgVars

\* initialize_pool:  oracledb.create_pool(user=config.DB_USER,
\* password=config.DB_PASSWORD, ...)
MainCreatePool(ok) ==
    /\ mpc \in DbStages
    /\ CreatePool(1, ok)
    /\ poolArgs' = Append(poolArgs, environ.DB_PASSWORD)
    /\ UNCHANGED <<environ, mpc, errors, results>>

MainAcquire(ok) ==
    /\ mpc \in DbStages
    /\ Acquire(1, ok)
    /\ UNCHANGED cfgVars

MainBodyAndRelease(e) ==
    /\ mpc \in DbStages
    /\ BodyAndRelease(1, e)
    /\ UNCHANGED cfgVars

\* The call comes back to test_database_connection: an exception ends it
\* with False (except Exception), a failed test_connection too, and after
\* the version query it returns True
MainDbReturn ==
    LET v == Outcome(top[1], exc[1])
    IN  /\ mpc \in DbStages
        /\ Return(1)
        /\ IF v = "raise" \/ (mpc = "db_test" /\ v # "True")
           THEN /\ results' = Result(results, FALSE)
                /\ mpc' = "ords_client"
           ELSE IF mpc = "db_version"
           THEN /\ results' = Result(results, TRUE)
                /\ mpc' = "ords_client"
           ELSE /\ mpc' = (IF mpc = "db_init" THEN "db_test" ELSE "db_version")
                /\ UNCHANGED results
        /\ UNCHANGED <<environ, errors, poolArgs>>

\* test_ords_connection:  client = ORDSClient()
MainOrdsClient ==
    /\ mpc = "ords_client"
    /\ client' = ORDSClient(environ)
    /\ mpc' = "ords_health"
    /\ UNCHANGED <<apiPc, apiCall, apiArgs, server, http, apiRet>>
    /\ UNCHANGED <<environ, errors, results, poolArgs>>

\* test_ords_connection calls, in turn, client.health_check(),
\* client.get_strategies() and client.get_compression_statistics()
OrdsStages == {"ords_health", "ords_strategies", "ords_statistics"}

MainApiCall ==
    /\ mpc \in OrdsStages
    /\ IF mpc = "ords_health" THEN ApiHealthCheck
       ELSE IF mpc = "ords_strategies"
            THEN ApiRequest("GET", <<"strategies">>, PyNone, PyNone)
       ELSE ApiRequest("GET", <<"statistics", "/", "compression">>, PyNone, PyNone)
    /\ UNCHANGED cfgVars

\* The call comes back to test_ords_connection: a health check that is not
\* True ends it with False, an exception too (except Exception), and after
\* the statistics call it returns True
MainApiAnswer(a) ==
    /\ mpc \in OrdsStages
    /\ ApiAnswer(a)
    /\ IF apiRet'.raised # "none" \/ (mpc = "ords_health" /\ apiRet'.value # PyTrue)
       THEN /\ results' = Result(results, FALSE)
            /\ mpc' = "summary"
       ELSE IF mpc = "ords_statistics"
       THEN /\ results' = Result(results, TRUE)
            /\ mpc' = "summary"
       ELSE /\ mpc' = (IF mpc = "ords_health" THEN "ords_strategies"
                       ELSE "ords_statistics")
            /\ UNCHANGED results
    /\ UNCHANGED <<environ, errors, poolArgs>>

\* main:  return 0 if all_passed else 1
MainSummary ==
    /\ mpc = "summary"
    /\ results' = [results EXCEPT !.code =
                      IF \A i \in DOMAIN results.tests : results.tests[i]
                      THEN 0 ELSE 1]
    /\ mpc' = "exit"
    /\ UNCHANGED <<environ, errors, poolArgs>>

\* config.py was imported with nothing set; main has not started
InitCfg ==
    /\ environ = NoEnviron
    /\ mpc = "start"
    /\ errors = NotRun
    /\ results = NoResults
    /\ poolArgs = << >>

\* python test_connection.py, in any environment
InitMain ==
    /\ InitAuth /\ InitApp /\ InitDb /\ InitApi
    /\ environ \in Environs
    /\ mpc = "start"
    /\ errors = NotRun
    /\ results = NoResults
    /\ poolArgs = << >>

NextMain ==
    \/ MainValidate /\ UNCHANGED <<authVars, appVars, dbVars, apiVars>>
    \/ MainTestSsl /\ UNCHANGED <<authVars, appVars, dbVars, apiVars>>
    \/ MainDbCall /\ UNCHANGED <<authVars, appVars, apiVars>>
    \/ MainCheckPool /\ UNCHANGED <<authVars, appVars, apiVars>>
    \/ \E ok \in BOOLEAN :
          MainCreatePool(ok) /\ UNCHANGED <<authVars, appVars, apiVars>>
    \/ \E ok \in BOOLEAN :
          MainAcquire(ok) /\ UNCHANGED <<authVars, appVars, apiVars>>
    \/ \E e \in AllEndings :
          MainBodyAndRelease(e) /\ UNCHANGED <<authVars, appVars, apiVars>>
    \/ MainDbReturn /\ UNCHANGED <<authVars, appVars, apiVars>>
    \/ MainOrdsClient /\ UNCHANGED <<authVars, appVars, dbVars>>
    \/ MainApiCall /\ UNCHANGED <<authVars, appVars, dbVars>>
    \/ \E a \in Answers : MainApiAnswer(a) /\ UNCHANGED <<authVars, appVars, dbVars>>
    \/ MainSummary /\ UNCHANGED <<authVars, appVars, dbVars, apiVars>>

-----------------------------------------------------------------------------
(* The specifications                                                      *)

Init == InitAuth /\ InitApp /\ InitDb /\ InitApi /\ InitCfg

SpecAuth == Init /\ [][NextAuth]_vars

SpecApp == Init /\ [][NextApp]_vars

SpecDb == Init /\ [][NextDb]_vars

SpecDbFair == Init /\ [][NextDb]_vars /\ FairDb

SpecApi == Init /\ [][NextApi]_vars

SpecDbClose == Init /\ [][NextDbClose]_vars

SpecGateways == Init /\ [][NextGateways]_vars

SpecMain == InitMain /\ [][NextMain]_vars

-----------------------------------------------------------------------------
(* Properties of the Session Guard, checked under SpecAuth                 *)

\* The session is locked out: unauthenticated with the attempt budget used up
Locked(s) ==
    /\ Has(s, "login_attempts")
    /\ s["login_attempts"] >= MAX_LOGIN_ATTEMPTS
    /\ ~IsAuthenticated(s)

C6_CorrectPasswordSucceeds ==
    [][(/\ Login(DASHBOARD_PASSWORD)
        /\ Has(session_state, "login_attempts")
        /\ session_state["login_attempts"] < MAX_LOGIN_ATTEMPTS) =>
           /\ ret'.val = "True"
           /\ IsAuthenticated(session_state')
           /\ session_state'["login_attempts"] = 0
           /\ session_state'["last_activity"] = now]_vars

\* C6 witness: two wrong attempts, then the secret, ends authenticated
C6_Witness ==
    /\ ret.op = "login" /\ ret.arg = DASHBOARD_PASSWORD /\ ret.val = "True"
    /\ ret.was = MAX_LOGIN_ATTEMPTS - 1 /\ ~ret.auth
    /\ IsAuthenticated(session_state)
    /\ session_state["login_attempts"] = 0

\* The last operation authenticated the session: login returned True, or the
\* login form inside require_authentication succeeded
JustAuthenticated ==
    \/ ret.op = "login" /\ ret.val = "True"
    \/ ret.op = "require_authentication" /\ ret.val = "rerun"

C8_TimeoutIffIdleTooLong ==
    [][CheckSessionTimeout =>
         /\ (ret'.val = "True") <=>
               /\ Has(session_state, "last_activity")
               /\ now - session_state["last_activity"] > SESSION_TIMEOUT_MINUTES
         /\ (ret'.val = "True") =>
               /\ ~IsAuthenticated(session_state')
               /\ session_state'["username"] = None
               /\ session_state'["last_activity"] = now
         /\ (ret'.val = "False") => session_state' = session_state]_vars

\* C8 witness: an authenticated session was found idle too long and logged out
C8_Witness ==
    /\ ret.op = "check_session_timeout" /\ ret.val = "True" /\ ret.auth
    /\ ~IsAuthenticated(session_state)

\* C26: authenticated goes from false to true only in a login (login
\* itself, or the login form inside require_authentication) with the
\* configured secret that starts below the maximum of failed attempts; it
\* goes from true to false only in logout, or in check_session_timeout or
\* require_authentication when the idle time exceeds the window; a
\* rejected login on an authenticated session leaves it authenticated; and
\* username is set exactly when authenticated is true.
C26_AuthenticatedChangesOnlyByGuard ==
    /\ [](IsAuthenticated(session_state)
            <=> (Has(session_state, "username")
                   /\ session_state["username"] # None))
    /\ [][/\ (~IsAuthenticated(session_state) /\ IsAuthenticated(session_state')) =>
             /\ ret'.op \in {"login", "require_authentication"}
             /\ ret'.arg = DASHBOARD_PASSWORD
             /\ ret'.was < MAX_LOGIN_ATTEMPTS
          /\ (IsAuthenticated(session_state) /\ ~IsAuthenticated(session_state')) =>
             \/ ret'.op = "logout"
             \/ /\ ret'.op \in {"check_session_timeout", "require_authentication"}
                /\ now - session_state["last_activity"] > SESSION_TIMEOUT_MINUTES
          /\ (/\ IsAuthenticated(session_state)
              /\ ret'.op = "login" /\ ret'.val = "False"
              /\ ret' # ret) =>
                 IsAuthenticated(session_state')]_vars

\* C26 witness: require_authentication found an authenticated session idle
\* for longer than the window and logged it out
C26_Witness ==
    /\ ret.op = "require_authentication" /\ ret.auth
    /\ ~IsAuthenticated(session_state)
    /\ session_state["username"] = None
    /\ session_state["last_activity"] = now

lockout_duration == 5

\* C24: a lockout expires.  At the moment the failed logins reach the
\* maximum the session is locked (the secret is rejected); once more than
\* lockout_duration has passed over a locked session it is locked no
\* longer, and a login with the secret succeeds.
C24_LockoutExpires ==
    [][/\ (~Locked(session_state) /\ Locked(session_state')) =>
             LoginResult(session_state', DASHBOARD_PASSWORD) = "False"
       /\ (Locked(session_state) /\ now' - now > lockout_duration) =>
             LoginResult(session_state', DASHBOARD_PASSWORD) = "True"]_vars

-----------------------------------------------------------------------------
(* Properties of the Database Gateway, checked under SpecDb                *)

\* C3: an operation that checked out a connection has given it back by the
\* time it returns, on every exit path (success, statement error, fetch error,
\* commit error); when no operation is running, no connection is out.
C3_ReleasedOnEveryExit ==
    /\ \A t \in Threads : tpc[t] \in {"return", "idle"} => conn[t] = NoConn
    /\ (\A t \in Threads : tpc[t] = "idle") =>
          \A p \in 1..created : Busy(p) = 0

\* C3 witness: execute_dml failed in its commit, holding a connection, and is
\* about to return 0 with the connection back in the pool
C3_Witness ==
    \E t \in Threads :
        /\ tpc[t] = "return" /\ top[t] = "execute_dml"
        /\ exc[t] = Raised("oracledb.Error", "commit")
        /\ Outcome(top[t], exc[t]) = "0"
        /\ conn[t] = NoConn

C11_FailuresBecomeDefaults ==
    \A t \in Threads :
        (tpc[t] = "return" /\ top[t] \in DbOperations /\ exc[t] # NoExc) =>
            /\ exc[t].at \in {"create", "acquire", "execute", "fetch", "commit"}
            /\ Outcome(top[t], exc[t]) # "raise"
            /\ Outcome(top[t], exc[t]) = DefaultValue(top[t])
            /\ Outcome(top[t], exc[t]) # SuccessValue(top[t])

\* C11 witness: the first execute_query of the process could not create the
\* pool and is about to return an empty result
C11_Witness ==
    \E t \in Threads :
        /\ tpc[t] = "return" /\ top[t] = "execute_query"
        /\ exc[t] = Raised("oracledb.Error", "create")
        /\ pool = NoPool
        /\ Outcome(top[t], exc[t]) = "empty"

\* How often the operation made the driver call c, and where in its calls
Times(calls, c) == Cardinality({i \in DOMAIN calls : calls[i] = c})
Places(calls, c) == {i \in DOMAIN calls : calls[i] = c}

\* C12: a commit is issued only after the statement or procedure call of the
\* same operation went through, never after a failed execution;
\* execute_dml(commit=False) issues none; execute_procedure commits on every
\* call that went through.
C12_CommitOnlyAfterSuccess ==
    \A t \in Threads :
        tpc[t] = "return" =>
            /\ \A i \in Places(ran[t], "commit") :
                  /\ top[t] \in {"execute_dml", "execute_procedure"}
                  /\ \E j \in Places(ran[t], "execute") : j < i
                  /\ exc[t].at # "execute"
            /\ (top[t] = "execute_dml" /\ ~targ[t]) => Times(ran[t], "commit") = 0
            /\ (top[t] = "execute_dml" /\ targ[t]
                  /\ Times(ran[t], "execute") = 1 /\ exc[t].at # "execute")
                  => Times(ran[t], "commit") = 1
            /\ (top[t] = "execute_procedure"
                  /\ Times(ran[t], "execute") = 1 /\ exc[t].at # "execute")
                  => Times(ran[t], "commit") = 1
            /\ exc[t].at = "execute" => Times(ran[t], "commit") = 0

\* C12 witness: an execute_dml(commit=False) whose statement went through
\* returns its row count without having committed
C12_Witness ==
    \E t \in Threads :
        /\ tpc[t] = "return" /\ top[t] = "execute_dml" /\ ~targ[t]
        /\ exc[t] = NoExc
        /\ ran[t] = <<"acquire", "execute", "release">>
        /\ Outcome(top[t], exc[t]) = "rowcount"

\* C15: when oracledb.create_pool fails, initialize_pool raises the error to
\* its caller after exactly one creation attempt and assigns nothing to the
\* pool handle, so the next initialize_pool or first use that finds no pool
\* attempts creation again.
C15_FailedCreationPropagates ==
    /\ [](\A t \in Threads :
            (/\ tpc[t] = "return" /\ top[t] = "initialize_pool"
             /\ exc[t] # NoExc) =>
                /\ exc[t] = Raised("oracledb.Error", "create")
                /\ Outcome(top[t], exc[t]) = "raise"
                /\ ran[t] = <<"create_pool">>)
    /\ [][\A t \in Threads :
            /\ (tpc[t] = "create_pool" /\ exc'[t] # NoExc) =>
                  pool' = pool /\ created' = created
            /\ (tpc[t] = "check_pool" /\ tpc'[t] # "check_pool" /\ pool = NoPool)
                  => tpc'[t] = "create_pool"]_vars

\* C15 witness: an initialize_pool failed and left no pool, and another
\* caller that found no pool is at its own creation attempt
C15_Witness ==
    \E t, u \in Threads :
        /\ tpc[t] = "return" /\ top[t] = "initialize_pool"
        /\ exc[t] = Raised("oracledb.Error", "create")
        /\ pool = NoPool /\ created = 0
        /\ tpc[u] = "create_pool"

C29_OnePoolOnly ==
    /\ [](/\ created <= 1
          /\ \A t \in Threads : conn[t] \in {NoConn, pool})
    /\ [][pool # NoPool => pool' = pool]_vars

\* C25: when the statement of a mutating operation (execute_dml,
\* execute_procedure) fails, the operation calls rollback on its
\* connection exactly once and does not call commit.
C25_FailedStatementRollsBack ==
    \A t \in Threads :
        (/\ tpc[t] = "return"
         /\ top[t] \in {"execute_dml", "execute_procedure"}
         /\ exc[t] = Raised("oracledb.Error", "execute"))
            => /\ Times(ran[t], "rollback") = 1
               /\ Times(ran[t], "commit") = 0

-----------------------------------------------------------------------------
(* Properties of close_pool, checked under SpecDbClose                     *)

C30_ReleasedToItsOwnPool ==
    /\ [][\A t \in ClosingThreads :
            (tpc[t] = "body" /\ tpc'[t] = "return" /\ conn[t] # NoConn) =>
                /\ pool = conn[t]
                /\ conn'[t] = NoConn
                /\ exc'[t].at # "release"]_vars
    /\ [](\A t \in ClosingThreads :
            tpc[t] \in {"return", "idle"} => conn[t] = NoConn)
    /\ [](\A t \in ClosingThreads :
            (tpc[t] = "return" /\ top[t] \in DbOperations) =>
                Outcome(top[t], exc[t]) # "raise")

-----------------------------------------------------------------------------
(* Properties of the API Gateway, checked under SpecApi                    *)

\* A dict whose only key is error, with a non-empty text
IsErrorEnvelope(v) ==
    /\ v.kind = "dict"
    /\ Keys(v) = {"error"}
    /\ DictGet(v, "error") # ""

\* C9: under a transport failure (timeout, connection refused, TLS error)
\* request(...) does not raise and returns an envelope whose only key is
\* error, with a non-empty text, whatever the method, endpoint, parameters
\* and body; health_check returns false.
C9_TransportFailureBecomesEnvelope ==
    server.fail # "none" =>
        /\ apiRet.raised = "none"
        /\ apiCall.op = "request" => IsErrorEnvelope(apiRet.value)
        /\ apiCall.op = "health_check" => apiRet.value = PyFalse

\* C9 witness: a POST with a body ran into a read timeout
C9_Witness ==
    /\ apiPc = "idle"
    /\ apiCall.op = "request" /\ apiCall.method = "POST"
    /\ apiCall.json # PyNone
    /\ server.fail = "ReadTimeout"
    /\ Len(http) = 1
    /\ apiRet.value = Envelope("Read timed out.")

\* C10: for every response whose status is outside 200-299, 1xx and 3xx
\* included, request(...) returns an error envelope and not the parsed body.
C10_Non2xxBecomesEnvelope ==
    (/\ apiPc = "idle"
     /\ apiCall.op = "request"
     /\ server.fail = "none"
     /\ server.status \notin 200..299) =>
        /\ apiRet.raised = "none"
        /\ IsErrorEnvelope(apiRet.value)
        /\ server.body.parses = "yes" => apiRet.value # server.body.value

\* C13: health_check never raises; it returns true exactly when the health
\* request succeeded (a 2xx response) with a mapping whose status is
\* "healthy", and false for every other outcome.
C13_HealthyIffSucceededAndHealthy ==
    (apiPc = "idle" /\ apiCall.op = "health_check") =>
        /\ apiRet.raised = "none"
        /\ apiRet.value \in {PyTrue, PyFalse}
        /\ (apiRet.value = PyTrue) <=>
              /\ server.fail = "none"
              /\ server.status \in 200..299
              /\ server.body.parses = "yes"
              /\ server.body.value.kind = "dict"
              /\ DictGet(server.body.value, "status") = "healthy"

\* C14: every HTTP request the gateway sends, through _make_request or by
\* export_recommendations_csv itself, carries the client's basic-auth
\* credentials, timeout and TLS-verification flag, and the client holds the
\* values it was constructed with.
C14_EveryCallCarriesTheConfiguration ==
    /\ client = [base_url |-> RStrip(ORDS_BASE_URL),
                 auth |-> [username |-> ORDS_USERNAME, password |-> ORDS_PASSWORD],
                 timeout |-> API_TIMEOUT, verify_ssl |-> FALSE]
    /\ \A i \in DOMAIN http :
          /\ http[i].auth = client.auth
          /\ http[i].auth.username # ""
          /\ http[i].timeout = client.timeout
          /\ http[i].verify = client.verify_ssl
    /\ (apiPc = "idle" /\ apiCall.op # "none") => Len(http) >= 1

\* C14 witness: export_recommendations_csv sent its own request, with the
\* credentials, and got the text of a 200 response back
C14_Witness ==
    /\ apiPc = "idle" /\ apiCall.op = "export_recommendations_csv"
    /\ apiArgs.strategy = "OLTP"
    /\ server.status = 200 /\ server.body.parses = "yes"
    /\ Len(http) = 1 /\ http[1].auth = auth
    /\ http[1].params = PyDict({<<"strategy", "OLTP">>})
    /\ apiRet.value.kind = "str" /\ apiRet.value # PyStr("")

\* C18: batch_execute with n identifiers sends exactly one request, a POST
\* to compression/batch whose body holds all n identifiers in the order
\* given, with the dry_run and parallel_degree it was called with.
C18_BatchIsOneRequest ==
    apiCall.op = "batch_execute" =>
        /\ Len(http) = (IF apiPc = "idle" THEN 1 ELSE 0)
        /\ \A i \in DOMAIN http :
              /\ http[i].method = "POST"
              /\ http[i].url = RStrip(ORDS_BASE_URL) \o <<"/", "compression", "/", "batch">>
              /\ http[i].params = PyNone
              /\ http[i].json.kind = "dict"
              /\ Keys(http[i].json)
                    = {"recommendation_ids", "dry_run", "parallel_degree"}
              /\ DictGet(http[i].json, "recommendation_ids")
                    = apiArgs.recommendation_ids
              /\ DictGet(http[i].json, "dry_run") = apiArgs.dry_run
              /\ DictGet(http[i].json, "parallel_degree") = apiArgs.parallel_degree

\* C18 witness: a batch of two identifiers, not in ascending order, went out
\* as one request and was answered
C18_Witness ==
    /\ apiPc = "idle" /\ apiCall.op = "batch_execute"
    /\ apiArgs.recommendation_ids = <<9, 7>>
    /\ ~apiArgs.dry_run /\ apiArgs.parallel_degree = 1
    /\ server.status = 200
    /\ Len(http) = 1
    /\ DictGet(http[1].json, "recommendation_ids") = <<9, 7>>

\* C19: get_recommendations(strategy, min_savings_pct, limit) sends one GET
\* to recommendations whose query parameters are exactly min_savings_pct and
\* limit, always, and strategy when a strategy was named (a non-empty
\* string; None and the empty string name no strategy), each with the value
\* it was called with.
C19_ParamsUnmodified ==
    apiCall.op = "get_recommendations" =>
        /\ Len(http) = (IF apiPc = "idle" THEN 1 ELSE 0)
        /\ \A i \in DOMAIN http :
              /\ http[i].method = "GET"
              /\ http[i].url = RStrip(ORDS_BASE_URL) \o <<"/", "recommendations">>
              /\ http[i].json = PyNone
              /\ http[i].params.kind = "dict"
              /\ Keys(http[i].params)
                    = {"min_savings_pct", "limit"}
                        \cup (IF apiArgs.strategy \notin {None, ""}
                              THEN {"strategy"} ELSE {})
              /\ \A k \in Keys(http[i].params) :
                    DictGet(http[i].params, k) = apiArgs[k]

\* C19 witness: a call naming a strategy and a zero minimum went out with all
\* three parameters
C19_Witness ==
    /\ apiPc = "idle" /\ apiCall.op = "get_recommendations"
    /\ apiArgs.strategy = "OLTP" /\ apiArgs.min_savings_pct = 0
    /\ apiArgs.limit = 10
    /\ Len(http) = 1
    /\ http[1].params = PyDict({<<"strategy", "OLTP">>, <<"min_savings_pct", 0>>,
                                <<"limit", 10>>})

\* C20: a request answered with status 204 returns exactly {"success": True}
\* to its caller, whatever parsing the (empty) body would have done: no error
\* envelope, no exception.
C20_NoContentIsSuccess ==
    (/\ apiPc = "idle"
     /\ apiCall.op \notin {"none", "health_check", "export_recommendations_csv"}
     /\ server.fail = "none"
     /\ server.status = 204)
        => /\ apiRet.raised = "none"
           /\ apiRet.value = PyDict({<<"success", "True">>})
           /\ Len(http) = 1

\* C20 witness: request(...) was answered 204 with a body whose parsing
\* would have raised, and gave {"success": True}
C20_Witness ==
    /\ apiPc = "idle" /\ apiCall.op = "request"
    /\ server.fail = "none" /\ server.status = 204
    /\ server.body.parses \notin {"yes", "RequestException"}
    /\ Len(http) = 1
    /\ apiRet = [raised |-> "none", value |-> PyDict({<<"success", "True">>})]

-----------------------------------------------------------------------------
(* Properties of both gateways, checked under SpecGateways                 *)

C21_FailedCallIsContained ==
    /\ [](/\ \A t \in OneSession :
               (tpc[t] = "return" /\ top[t] \in DbOperations /\ exc[t] # NoExc)
                  => /\ Outcome(top[t], exc[t]) = DefaultValue(top[t])
                     /\ conn[t] = NoConn
          /\ (/\ apiPc = "idle" /\ apiCall.op # "none"
              /\ \/ server.fail # "none"
                 \/ HTTPErrorText(server.status) # ""
                 \/ server.status # 204 /\ server.body.parses # "yes")
                  => apiRet.raised = "none")
    /\ [][/\ session_state' = session_state
          /\ pool' # pool => (pool = NoPool /\ exc' = exc)]_vars

-----------------------------------------------------------------------------
(* Properties of the configuration, checked under SpecMain                 *)

\* C22: loading the configuration fails fast.  With the database password
\* absent the process never gets to create a pool, and with the API
\* password absent it never sends a request.
C22_FailsFastWithoutSecrets ==
    /\ environ.DB_PASSWORD = "" => (poolArgs = << >> /\ pool = NoPool)
    /\ environ.ORDS_PASSWORD = "" =>
          (http = << >> /\ apiCall.op = "none")

\* C23: validate_config reports every problem at once.  The list it returns
\* holds exactly one message for each problem present (a missing database
\* password, a missing API password and, only with SSL enabled, a missing
\* certificate file and a missing key file), and it is empty exactly when
\* there is none.
C23_ValidateReportsEveryProblem ==
    errors # NotRun =>
        LET problems ==
                {m \in {"DB_PASSWORD not set", "ORDS_PASSWORD not set",
                        "SSL certificate not found", "SSL key not found"} :
                    \/ m = "DB_PASSWORD not set" /\ environ.DB_PASSWORD = ""
                    \/ m = "ORDS_PASSWORD not set" /\ environ.ORDS_PASSWORD = ""
                    \/ /\ m = "SSL certificate not found"
                       /\ environ.SSL_ENABLED /\ ~environ.cert_exists
                    \/ /\ m = "SSL key not found"
                       /\ environ.SSL_ENABLED /\ ~environ.key_exists}
        IN  /\ {errors[i] : i \in DOMAIN errors} = problems
            /\ Len(errors) = Cardinality(problems)
            /\ (errors = << >>) <=> (problems = {})

\* C23 witness: with both passwords and both files missing and SSL enabled,
\* validate_config returned all four messages
C23_Witness ==
    /\ errors # NotRun
    /\ environ.DB_PASSWORD = "" /\ environ.ORDS_PASSWORD = ""
    /\ environ.SSL_ENABLED /\ ~environ.cert_exists /\ ~environ.key_exists
    /\ Len(errors) = 4

-----------------------------------------------------------------------------
(* Properties of the dashboard entry points, checked under SpecApp         *)

\* C1: in every interaction, a gateway operation is invoked only after
\* require_authentication ran in that interaction and left the session
\* authenticated, whatever script the interaction started from.
C1_GatewayOnlyBehindGuard ==
    gwcall # "none" => (guarded /\ IsAuthenticated(session_state))

=============================================================================
